---- MODULE Spec2Model ----
(***************************************************************************)
(* Model of src/server.js: an express application serving the users table  *)
(* of an SQLite database (list, get, create, update, delete), its          *)
(* express-validator chain, its catch-all error middleware and its SIGINT  *)
(* handler.                                                                 *)
(*                                                                         *)
(* Text is a sequence of one-character strings, so that trim(), isEmail(), *)
(* normalizeEmail() and isFloat() are computed on characters.  A JSON      *)
(* value of a request body is a record [t, n, s]: t is "undef" (the key is *)
(* absent), "str" (s holds the characters) or "num" (n holds the number).  *)
(* Numbers are integers; the numerals of the bounded inputs carry no       *)
(* fraction or exponent.                                                   *)
(***************************************************************************)
EXTENDS Integers, Sequences, FiniteSets

\* users    the users table: a function from the ids of its rows to the rows
\* seq      the largest id AUTOINCREMENT has handed out
\* clock    CURRENT_TIMESTAMP, in seconds
\* mode     process.env.NODE_ENV
\* db       the connection: "open", "closing" (db.close() called) or "closed"
\* exited   process.exit() has run
\* pending  the db.run statements handed to the database, callbacks not yet run
\* queued   the number of statements handed over after db.close() was called
\* resp     the response this step sent (NoResponse when it sent none)
\* sent     history: for each row, the body, as the client sent it, of the
\*          request that wrote the row last
\* deleted  history: the ids of the rows a DELETE has removed
VARIABLES users, seq, clock, mode, db, exited, pending, queued, resp, sent, deleted

vars == <<users, seq, clock, mode, db, exited, pending, queued, resp, sent, deleted>>

(***************************************************************************)
(* Bounds of the model.                                                    *)
(***************************************************************************)
MaxUsers == 2
MaxClock == 1
MaxInflight == 2
MaxQueued == 1

(***************************************************************************)
(* JSON values.                                                            *)
(***************************************************************************)
Undef == [t |-> "undef", n |-> 0, s |-> <<>>]
Str(s) == [t |-> "str", n |-> 0, s |-> s]
Num(n) == [t |-> "num", n |-> n, s |-> <<>>]

Digit == <<"0", "1", "2", "3", "4", "5", "6", "7", "8", "9">>

RECURSIVE DigitsOf(_)
DigitsOf(n) ==
  IF n < 0 THEN <<"-">> \o DigitsOf(0 - n)
  ELSE IF n < 10 THEN <<Digit[n + 1]>>
  ELSE DigitsOf(n \div 10) \o <<Digit[(n % 10) + 1]>>

\* express-validator's toString(): the string a validator or sanitizer sees.
ToStr(v) ==
  IF v.t = "str" THEN v.s
  ELSE IF v.t = "num" THEN DigitsOf(v.n)
  ELSE <<>>

RECURSIVE TrimLeft(_)
TrimLeft(s) ==
  IF s # <<>> /\ Head(s) = " " THEN TrimLeft(Tail(s)) ELSE s

RECURSIVE TrimRight(_)
TrimRight(s) ==
  IF s # <<>> /\ s[Len(s)] = " " THEN TrimRight(SubSeq(s, 1, Len(s) - 1)) ELSE s

\* .trim()
Trim(s) == TrimRight(TrimLeft(s))

\* .isLength({ min: 1 })
IsLengthMin1(s) == Len(s) >= 1

Upper == {"A", "B", "X"}
Letters == {"a", "b", "c", "i", "l", "n", "o", "p", "s", "t", "x"} \cup Upper
Digits == {Digit[i] : i \in 1..10}

ToLower(c) ==
  CASE c = "A" -> "a"
    [] c = "B" -> "b"
    [] c = "X" -> "x"
    [] OTHER -> c

Positions(s, c) == {i \in 1..Len(s) : s[i] = c}

Last(S) == CHOOSE i \in S : \A j \in S : j <= i

\* .isEmail(): one "@", a local part of letters and digits, and a domain of
\* dot-separated non-empty labels that ends in a top-level label of at least
\* two letters.
IsEmail(s) ==
  /\ Cardinality(Positions(s, "@")) = 1
  /\ LET at == Last(Positions(s, "@"))
         local == SubSeq(s, 1, at - 1)
         domain == SubSeq(s, at + 1, Len(s))
         dots == Positions(domain, ".")
     IN /\ Len(local) >= 1
        /\ \A i \in 1..Len(local) : local[i] \in Letters \cup Digits
        /\ dots # {}
        /\ \A i \in 1..Len(domain) : domain[i] \in Letters \cup Digits \cup {"."}
        /\ 1 \notin dots
        /\ \A i \in dots : i + 1 \notin dots
        /\ Len(domain) - Last(dots) >= 2
        /\ \A i \in (Last(dots) + 1)..Len(domain) : domain[i] \in Letters

\* .normalizeEmail() with its default options, for a domain that is none of
\* the providers it treats specially: the whole address is lower-cased; a
\* string without "@" comes back as an empty local part and that domain.
NormalizeEmail(s) ==
  LET low == [i \in 1..Len(s) |-> ToLower(s[i])]
  IN IF Positions(s, "@") = {} THEN <<"@">> \o low ELSE low

\* .isFloat(): an optional sign and at least one digit.
IsFloat(s) ==
  LET body == IF s # <<>> /\ Head(s) \in {"-", "+"} THEN Tail(s) ELSE s
  IN /\ Len(body) >= 1
     /\ \A i \in 1..Len(body) : body[i] \in Digits

RECURSIVE ParseDigits(_)
ParseDigits(s) ==
  IF s = <<>> THEN 0
  ELSE 10 * ParseDigits(SubSeq(s, 1, Len(s) - 1))
       + (CHOOSE d \in 0..9 : Digit[d + 1] = s[Len(s)])

\* The REAL affinity of geo_lat and geo_lng: a text that is a well-formed
\* numeral is stored as that number, a number as itself.
RealAffinity(v) ==
  IF v.t = "str" /\ IsFloat(v.s)
  THEN IF Head(v.s) = "-" THEN Num(0 - ParseDigits(Tail(v.s)))
       ELSE IF Head(v.s) = "+" THEN Num(ParseDigits(Tail(v.s)))
       ELSE Num(ParseDigits(v.s))
  ELSE v

(***************************************************************************)
(* The request body and the validation chain.                              *)
(***************************************************************************)
Body(name, email, phone, company, street, city, zip, lat, lng) ==
  [name |-> name, email |-> email, phone |-> phone, company |-> company,
   address |-> [street |-> street, city |-> city, zip |-> zip,
                geo |-> [lat |-> lat, lng |-> lng]]]

\* A request without a body (GET and DELETE).
NoBody == Body(Undef, Undef, Undef, Undef, Undef, Undef, Undef, Undef, Undef)

Field(b, path) ==
  CASE path = "name" -> b.name
    [] path = "email" -> b.email
    [] path = "phone" -> b.phone
    [] path = "company" -> b.company
    [] path = "address.street" -> b.address.street
    [] path = "address.city" -> b.address.city
    [] path = "address.zip" -> b.address.zip
    [] path = "address.geo.lat" -> b.address.geo.lat
    [] path = "address.geo.lng" -> b.address.geo.lng

\* validateUser: the chains in the order they are declared.
validateUser ==
  << [path |-> "name", kind |-> "text", msg |-> "Name is required"],
     [path |-> "email", kind |-> "email", msg |-> "Valid email is required"],
     [path |-> "phone", kind |-> "text", msg |-> "Phone is required"],
     [path |-> "company", kind |-> "text", msg |-> "Company is required"],
     [path |-> "address.street", kind |-> "text", msg |-> "Street address is required"],
     [path |-> "address.city", kind |-> "text", msg |-> "City is required"],
     [path |-> "address.zip", kind |-> "text", msg |-> "Zip code is required"],
     [path |-> "address.geo.lat", kind |-> "float", msg |-> "Valid latitude is required"],
     [path |-> "address.geo.lng", kind |-> "float", msg |-> "Valid longitude is required"] >>

\* The value a chain leaves in req.body: trim() and normalizeEmail() are
\* sanitizers and write their result back, isFloat() only validates.
SanitizeField(kind, v) ==
  CASE kind = "text" -> Str(Trim(ToStr(v)))
    [] kind = "email" -> Str(NormalizeEmail(ToStr(v)))
    [] kind = "float" -> v

\* PassesField with the text chains' trim() left out.
PassesFieldUntrimmed(kind, v) ==
  CASE kind = "text" -> IsLengthMin1(ToStr(v))
    [] kind = "email" -> IsEmail(ToStr(v))
    [] kind = "float" -> IsFloat(ToStr(v))

\* Whether a chain's validator accepts the value.
PassesField(kind, v) ==
  CASE kind = "text" -> IsLengthMin1(Trim(ToStr(v)))
    [] kind = "email" -> IsEmail(ToStr(v))
    [] kind = "float" -> IsFloat(ToStr(v))

\* req.body after the chains ran.
Sanitize(b) ==
  Body(SanitizeField("text", b.name), SanitizeField("email", b.email),
       SanitizeField("text", b.phone), SanitizeField("text", b.company),
       SanitizeField("text", b.address.street), SanitizeField("text", b.address.city),
       SanitizeField("text", b.address.zip),
       SanitizeField("float", b.address.geo.lat), SanitizeField("float", b.address.geo.lng))

\* validationResult(req).array()
ValidationErrors(b) ==
  LET failing(c) == ~PassesField(c.kind, Field(b, c.path))
      failed == SelectSeq(validateUser, failing)
  IN [i \in 1..Len(failed) |-> [path |-> failed[i].path, msg |-> failed[i].msg]]

(***************************************************************************)
(* The users table and its statements.  A statement's result is the record *)
(* sqlite3 hands to the callback: err ("" for null), the table and the     *)
(* AUTOINCREMENT sequence afterwards, this.lastID and this.changes.        *)
(***************************************************************************)
NoErr == ""
UniqueFailed == "SQLITE_CONSTRAINT: UNIQUE constraint failed: users.email"
NotNullFailed == "SQLITE_CONSTRAINT: NOT NULL constraint failed"
IoErr == "SQLITE_IOERR: disk I/O error"

\* IncludesUniqueFailed looking for a text no message of the engine holds.
IncludesOtherText(err) == err = "UNIQUE"

\* err.message.includes('UNIQUE constraint failed')
IncludesUniqueFailed(err) == err = UniqueFailed

\* The bound parameters of INSERT and UPDATE as column values.
Columns(b) ==
  [name |-> b.name, email |-> b.email, phone |-> b.phone, company |-> b.company,
   address_street |-> b.address.street, address_city |-> b.address.city,
   address_zip |-> b.address.zip,
   geo_lat |-> RealAffinity(b.address.geo.lat),
   geo_lng |-> RealAffinity(b.address.geo.lng)]

ColumnNames ==
  {"name", "email", "phone", "company", "address_street", "address_city",
   "address_zip", "geo_lat", "geo_lng"}

Row(id, c, created, updated) ==
  [id |-> id, name |-> c.name, email |-> c.email, phone |-> c.phone,
   company |-> c.company, address_street |-> c.address_street,
   address_city |-> c.address_city, address_zip |-> c.address_zip,
   geo_lat |-> c.geo_lat, geo_lng |-> c.geo_lng,
   created_at |-> created, updated_at |-> updated]

\* NOT NULL on every data column.
NotNullViolated(c) == \E k \in ColumnNames : c[k].t = "undef"

\* UniqueViolated looked at by INSERT alone.
UniqueViolatedOnInsert(tbl, c, self) ==
  self = 0 /\ \E j \in DOMAIN tbl : tbl[j].email = c.email

\* email TEXT UNIQUE: another row holds the same email.
UniqueViolated(tbl, c, self) ==
  \E j \in DOMAIN tbl : j # self /\ tbl[j].email = c.email

Result(err, tbl, sq, lastID, changes) ==
  [err |-> err, users |-> tbl, seq |-> sq, lastID |-> lastID, changes |-> changes]

\* SqlInsert on id INTEGER PRIMARY KEY without AUTOINCREMENT: the successor
\* of the largest id in the table.
SqlInsertRowid(tbl, sq, b, now, fault) ==
  LET c == Columns(b)
      id == IF DOMAIN tbl = {} THEN 1
            ELSE 1 + CHOOSE m \in DOMAIN tbl : \A k \in DOMAIN tbl : k <= m
  IN IF fault # NoErr THEN Result(fault, tbl, sq, 0, 0)
     ELSE IF NotNullViolated(c) THEN Result(NotNullFailed, tbl, sq, 0, 0)
     ELSE IF UniqueViolated(tbl, c, 0) THEN Result(UniqueFailed, tbl, sq, 0, 0)
     ELSE Result(NoErr,
                 [i \in DOMAIN tbl \cup {id} |->
                    IF i = id THEN Row(id, c, now, now) ELSE tbl[i]],
                 IF id > sq THEN id ELSE sq, id, 1)

\* INSERT INTO users (...) VALUES (...): id INTEGER PRIMARY KEY AUTOINCREMENT
\* takes the successor of the largest id ever used, created_at and
\* updated_at default to CURRENT_TIMESTAMP.
SqlInsert(tbl, sq, b, now, fault) ==
  LET c == Columns(b)
      id == sq + 1
  IN IF fault # NoErr THEN Result(fault, tbl, sq, 0, 0)
     ELSE IF NotNullViolated(c) THEN Result(NotNullFailed, tbl, sq, 0, 0)
     ELSE IF UniqueViolated(tbl, c, 0) THEN Result(UniqueFailed, tbl, sq, 0, 0)
     ELSE Result(NoErr,
                 [i \in DOMAIN tbl \cup {id} |->
                    IF i = id THEN Row(id, c, now, now) ELSE tbl[i]],
                 id, id, 1)

\* SqlUpdate as INSERT OR REPLACE: a row is written whether or not the id
\* exists.
SqlUpsert(tbl, sq, b, id, now, fault) ==
  LET c == Columns(b)
  IN IF fault # NoErr THEN Result(fault, tbl, sq, 0, 0)
     ELSE IF NotNullViolated(c) THEN Result(NotNullFailed, tbl, sq, 0, 0)
     ELSE IF UniqueViolated(tbl, c, id) THEN Result(UniqueFailed, tbl, sq, 0, 0)
     ELSE Result(NoErr,
                 [i \in DOMAIN tbl \cup {id} |-> IF i = id THEN Row(id, c, now, now) ELSE tbl[i]],
                 sq, 0, 1)

\* SqlUpdate with created_at among the columns it sets.
SqlUpdateCreated(tbl, sq, b, id, now, fault) ==
  LET c == Columns(b)
  IN IF fault # NoErr THEN Result(fault, tbl, sq, 0, 0)
     ELSE IF id \notin DOMAIN tbl THEN Result(NoErr, tbl, sq, 0, 0)
     ELSE IF NotNullViolated(c) THEN Result(NotNullFailed, tbl, sq, 0, 0)
     ELSE IF UniqueViolated(tbl, c, id) THEN Result(UniqueFailed, tbl, sq, 0, 0)
     ELSE Result(NoErr, [tbl EXCEPT ![id] = Row(id, c, now, now)], sq, 0, 1)

\* UPDATE users SET ..., updated_at = CURRENT_TIMESTAMP WHERE id = ?
SqlUpdate(tbl, sq, b, id, now, fault) ==
  LET c == Columns(b)
  IN IF fault # NoErr THEN Result(fault, tbl, sq, 0, 0)
     ELSE IF id \notin DOMAIN tbl THEN Result(NoErr, tbl, sq, 0, 0)
     ELSE IF NotNullViolated(c) THEN Result(NotNullFailed, tbl, sq, 0, 0)
     ELSE IF UniqueViolated(tbl, c, id) THEN Result(UniqueFailed, tbl, sq, 0, 0)
     ELSE Result(NoErr,
                 [tbl EXCEPT ![id] = Row(id, c, tbl[id].created_at, now)],
                 sq, 0, 1)

\* DELETE FROM users WHERE id = ?
SqlDelete(tbl, sq, id, fault) ==
  IF fault # NoErr THEN Result(fault, tbl, sq, 0, 0)
  ELSE IF id \notin DOMAIN tbl THEN Result(NoErr, tbl, sq, 0, 0)
  ELSE Result(NoErr, [i \in DOMAIN tbl \ {id} |-> tbl[i]], sq, 0, 1)

\* Expand with latitude and longitude exchanged.
ExpandSwapped(row) ==
  [id |-> row.id, name |-> row.name, email |-> row.email, phone |-> row.phone,
   company |-> row.company,
   address |-> [street |-> row.address_street, city |-> row.address_city,
                zip |-> row.address_zip,
                geo |-> [lat |-> row.geo_lng, lng |-> row.geo_lat]],
   created_at |-> row.created_at, updated_at |-> row.updated_at]

\* The transformation of a selected row into the response's user object.
Expand(row) ==
  [id |-> row.id, name |-> row.name, email |-> row.email, phone |-> row.phone,
   company |-> row.company,
   address |-> [street |-> row.address_street, city |-> row.address_city,
                zip |-> row.address_zip,
                geo |-> [lat |-> row.geo_lat, lng |-> row.geo_lng]],
   created_at |-> row.created_at, updated_at |-> row.updated_at]

\* SELECT ... FROM users WHERE id = ?: the row, if there is one.
SqlSelectById(tbl, id) ==
  IF id \in DOMAIN tbl THEN <<tbl[id]>> ELSE <<>>

\* SELECT ... FROM users ORDER BY created_at DESC: every order of the rows
\* in which created_at never increases; rows with equal created_at come in
\* an order the statement does not fix.
SqlSelectAll(tbl) ==
  LET n == Cardinality(DOMAIN tbl)
  IN {r \in [1..n -> DOMAIN tbl] :
        /\ \A i, j \in 1..n : i # j => r[i] # r[j]
        /\ \A i, j \in 1..n : i < j => tbl[r[i]].created_at >= tbl[r[j]].created_at}

(***************************************************************************)
(* Requests and responses.                                                 *)
(***************************************************************************)
\* A request that reached its handler: the route, the :id parameter, the
\* body the handler reads (req.body after the chains ran) and the body as
\* the client sent it.
Request(op, id, body, raw) ==
  [op |-> op, id |-> id, body |-> body, raw |-> raw]

NoRequest == Request("none", 0, NoBody, NoBody)

\* A response: the status and the keys of the JSON envelope ("" and <<>>
\* for a key the envelope does not carry, lastID 0 likewise).
Response(req, status, success, message, error, errors, data, lastID) ==
  [req |-> req, status |-> status, success |-> success, message |-> message,
   error |-> error, errors |-> errors, data |-> data, lastID |-> lastID]

NoResponse == Response(NoRequest, 0, FALSE, "", "", <<>>, <<>>, 0)

\* process.env.NODE_ENV
Modes == {"development", "production"}

\* The :id parameters of the requests.
Ids == 1..MaxUsers

\* The bodies of the requests: Bob's is left as it is by the chains,
\* AlicePadded is changed by them (padded name, upper case in the email,
\* latitude sent as a string), AliceNoName and Garbage are rejected.
Alice ==
  Body(Str(<<"a", "l">>), Str(<<"a", "@", "x", ".", "i", "o">>), Str(<<"1">>),
       Str(<<"c">>), Str(<<"s">>), Str(<<"t">>), Str(<<"9">>), Num(1), Num(2))

Bob ==
  Body(Str(<<"b", "o">>), Str(<<"b", "@", "x", ".", "i", "o">>), Str(<<"1">>),
       Str(<<"c">>), Str(<<"s">>), Str(<<"t">>), Str(<<"9">>), Num(1), Num(2))

AlicePadded ==
  Body(Str(<<" ", "a", "l", " ">>), Str(<<"A", "@", "X", ".", "i", "o">>), Str(<<"1">>),
       Str(<<"c">>), Str(<<"s">>), Str(<<"t">>), Str(<<"9">>), Str(<<"1">>), Num(2))

AliceNoName == [Alice EXCEPT !.name = Undef]

Garbage ==
  Body(Str(<<" ">>), Str(<<"n", "o", "p">>), Undef, Num(7), Undef, Undef, Undef,
       Str(<<"x">>), Undef)

Bodies == {Bob, AlicePadded, AliceNoName, Garbage}

\* What the storage engine may answer besides the outcome of the statement
\* itself: nothing else when it works, a fault of its own when it does not.
Working == {NoErr}
Faulty == {NoErr, IoErr}

\* The server listens from app.listen() until the process exits.
Listening == ~exited

Init ==
  /\ users = << >>
  /\ seq = 0
  /\ clock = 0
  /\ mode \in Modes
  /\ db = "open"
  /\ exited = FALSE
  /\ pending = {}
  /\ queued = 0
  /\ resp = NoResponse
  /\ sent = << >>
  /\ deleted = {}

\* db.all / db.get / db.run: the statement is handed to the database.  One
\* handed over after db.close() was called waits behind the close, and
\* queued counts those.
Submit(op, id, body, raw) ==
  LET r == Request(op, id, body, raw)
  IN IF db = "open"
     THEN /\ Cardinality(pending) < MaxInflight
          /\ r \notin pending
          /\ pending' = pending \cup {r}
          /\ queued' = queued
     ELSE /\ queued < MaxQueued
          /\ queued' = queued + 1
          /\ pending' = pending

\* What the chains make of each body: validationResult(req).array() and
\* req.body afterwards.
Checked ==
  [b \in Bodies |-> [errors |-> ValidationErrors(b), body |-> Sanitize(b)]]

\* handleValidationErrors, then the handler's db.run
Validated(op, id, b) ==
  LET errors == Checked[b].errors
  IN IF Len(errors) > 0
     THEN /\ resp' = Response(Request(op, id, Checked[b].body, b), 400,
                              FALSE, "Validation failed", "", errors, <<>>, 0)
          /\ pending' = pending
          /\ queued' = queued
     ELSE /\ Submit(op, id, Checked[b].body, b)
          /\ resp' = NoResponse

\* POST /api/users
CreateRequest ==
  \E b \in Bodies :
    /\ Listening
    /\ Validated("create", 0, b)
    /\ UNCHANGED <<users, seq, clock, mode, db, exited, sent, deleted>>

\* PUT /api/users/:id
UpdateRequest ==
  \E id \in Ids, b \in Bodies :
    /\ Listening
    /\ Validated("update", id, b)
    /\ UNCHANGED <<users, seq, clock, mode, db, exited, sent, deleted>>

\* DELETE /api/users/:id
DeleteRequest ==
  \E id \in Ids :
    /\ Listening
    /\ Submit("delete", id, NoBody, NoBody)
    /\ resp' = NoResponse
    /\ UNCHANGED <<users, seq, clock, mode, db, exited, sent, deleted>>

\* A request whose body express.json() cannot parse: the fault goes to the
\* error handling middleware.
ErrorMiddleware(req) ==
  Response(req, 500, FALSE, "Internal server error",
           IF mode = "development" THEN "Unexpected token" ELSE "Something went wrong",
           <<>>, <<>>, 0)

BadJsonRequest ==
  /\ Listening
  /\ resp' = ErrorMiddleware(Request("badjson", 0, NoBody, NoBody))
  /\ UNCHANGED <<users, seq, clock, mode, db, exited, pending, queued, sent, deleted>>

\* The callback of db.all in GET /api/users
ListReply(r, err, rows) ==
  IF err # NoErr
  THEN Response(r, 500, FALSE, "Failed to fetch users", err, <<>>, <<>>, 0)
  ELSE Response(r, 200, TRUE, "", "", <<>>, [i \in 1..Len(rows) |-> Expand(rows[i])], 0)

\* GET /api/users.  A SELECT changes nothing, so the statement and its
\* callback are one step; one handed over after db.close() waits behind
\* the close like any other.
ListUsers(F) ==
  \E fault \in F :
    /\ Listening
    /\ IF db = "open"
       THEN /\ \E order \in SqlSelectAll(users) :
                 resp' = ListReply(Request("list", 0, NoBody, NoBody), fault,
                                   IF fault # NoErr THEN <<>>
                                   ELSE [i \in 1..Len(order) |-> users[order[i]]])
            /\ queued' = queued
       ELSE /\ fault = NoErr
            /\ queued < MaxQueued
            /\ queued' = queued + 1
            /\ resp' = NoResponse
    /\ UNCHANGED <<users, seq, clock, mode, db, exited, pending, sent, deleted>>

\* The callback of db.get in GET /api/users/:id
GetReply(r, err, rows) ==
  IF err # NoErr
  THEN Response(r, 500, FALSE, "Failed to fetch user", err, <<>>, <<>>, 0)
  ELSE IF rows = <<>>
  THEN Response(r, 404, FALSE, "User not found", "", <<>>, <<>>, 0)
  ELSE Response(r, 200, TRUE, "", "", <<>>, <<Expand(rows[1])>>, 0)

\* GET /api/users/:id
GetUser(F) ==
  \E id \in Ids, fault \in F :
    /\ Listening
    /\ IF db = "open"
       THEN /\ resp' = GetReply(Request("get", id, NoBody, NoBody), fault,
                                IF fault # NoErr THEN <<>> ELSE SqlSelectById(users, id))
            /\ queued' = queued
       ELSE /\ fault = NoErr
            /\ queued < MaxQueued
            /\ queued' = queued + 1
            /\ resp' = NoResponse
    /\ UNCHANGED <<users, seq, clock, mode, db, exited, pending, sent, deleted>>

\* The callback of db.run in POST /api/users
CreateReply(r, res) ==
  IF res.err # NoErr
  THEN IF IncludesUniqueFailed(res.err)
       THEN Response(r, 400, FALSE, "Email already exists", "", <<>>, <<>>, 0)
       ELSE Response(r, 500, FALSE, "Failed to create user", res.err, <<>>, <<>>, 0)
  ELSE Response(r, 201, TRUE, "User created successfully", "", <<>>, <<>>, res.lastID)

CreateDone(F) ==
  \E r \in pending, fault \in F :
    /\ r.op = "create"
    /\ ~exited
    /\ LET res == SqlInsert(users, seq, r.body, clock, fault)
       IN /\ res.seq <= MaxUsers   \* the model stops handing out ids here
          /\ users' = res.users
          /\ seq' = res.seq
          /\ resp' = CreateReply(r, res)
          /\ sent' = IF res.err = NoErr
                       THEN [i \in DOMAIN sent \cup {res.lastID} |->
                               IF i = res.lastID THEN r.raw ELSE sent[i]]
                       ELSE sent
    /\ pending' = pending \ {r}
    /\ UNCHANGED <<clock, mode, db, exited, queued, deleted>>

\* The callback of db.run in PUT /api/users/:id
UpdateReply(r, res) ==
  IF res.err # NoErr
  THEN IF IncludesUniqueFailed(res.err)
       THEN Response(r, 400, FALSE, "Email already exists", "", <<>>, <<>>, 0)
       ELSE Response(r, 500, FALSE, "Failed to update user", res.err, <<>>, <<>>, 0)
  ELSE IF res.changes = 0
  THEN Response(r, 404, FALSE, "User not found", "", <<>>, <<>>, 0)
  ELSE Response(r, 200, TRUE, "User updated successfully", "", <<>>, <<>>, 0)

UpdateDone(F) ==
  \E r \in pending, fault \in F :
    /\ r.op = "update"
    /\ ~exited
    /\ LET res == SqlUpdate(users, seq, r.body, r.id, clock, fault)
       IN /\ users' = res.users
          /\ resp' = UpdateReply(r, res)
          /\ sent' = IF res.changes = 1
                       THEN [sent EXCEPT ![r.id] = r.raw]
                       ELSE sent
    /\ pending' = pending \ {r}
    /\ UNCHANGED <<seq, clock, mode, db, exited, queued, deleted>>

\* The callback of db.run in DELETE /api/users/:id
DeleteReply(r, res) ==
  IF res.err # NoErr
  THEN Response(r, 500, FALSE, "Failed to delete user", res.err, <<>>, <<>>, 0)
  ELSE IF res.changes = 0
  THEN Response(r, 404, FALSE, "User not found", "", <<>>, <<>>, 0)
  ELSE Response(r, 200, TRUE, "User deleted successfully", "", <<>>, <<>>, 0)

DeleteDone(F) ==
  \E r \in pending, fault \in F :
    /\ r.op = "delete"
    /\ ~exited
    /\ LET res == SqlDelete(users, seq, r.id, fault)
       IN /\ users' = res.users
          /\ resp' = DeleteReply(r, res)
          /\ sent' = IF res.changes = 1
                       THEN [i \in DOMAIN sent \ {r.id} |-> sent[i]]
                       ELSE sent
          /\ deleted' = IF res.changes = 1 THEN deleted \cup {r.id} ELSE deleted
    /\ pending' = pending \ {r}
    /\ UNCHANGED <<seq, clock, mode, db, exited, queued>>

\* process.on('SIGINT'): db.close() is called; the server keeps listening.
Sigint ==
  /\ ~exited
  /\ db = "open"
  /\ db' = "closing"
  /\ resp' = NoResponse
  /\ UNCHANGED <<users, seq, clock, mode, exited, pending, queued, sent, deleted>>

\* The callback of db.close(): the close runs once the statements handed
\* over before it have finished, and the callback exits the process whether
\* or not the close failed.
CloseDone(F) ==
  \E err \in F :
    /\ ~exited
    /\ db = "closing"
    /\ pending = {}
    /\ db' = IF err # NoErr THEN "open" ELSE "closed"
    /\ exited' = TRUE
    /\ resp' = NoResponse
    /\ UNCHANGED <<users, seq, clock, mode, pending, queued, sent, deleted>>

\* CURRENT_TIMESTAMP moves on by a second.
Tick ==
  /\ ~exited
  /\ clock < MaxClock
  /\ clock' = clock + 1
  /\ resp' = NoResponse
  /\ UNCHANGED <<users, seq, mode, db, exited, pending, queued, sent, deleted>>

Step(F) ==
  \/ ListUsers(F)
  \/ GetUser(F)
  \/ CreateRequest
  \/ UpdateRequest
  \/ DeleteRequest
  \/ BadJsonRequest
  \/ CreateDone(F)
  \/ UpdateDone(F)
  \/ DeleteDone(F)
  \/ Sigint
  \/ CloseDone(F)
  \/ Tick

\* The program on a storage engine that works.
Next == Step(Working)

Spec == Init /\ [][Next]_vars

\* The program on a storage engine that may fail.
NextFaulty == Step(Faulty)

SpecFaulty == Init /\ [][NextFaulty]_vars

(***************************************************************************)
(* The properties.                                                         *)
(***************************************************************************)
\* The nine data fields of a user object of a response, as a body.
UserFields(u) ==
  Body(u.name, u.email, u.phone, u.company, u.address.street, u.address.city,
       u.address.zip, u.address.geo.lat, u.address.geo.lng)

\* The nine data columns of a row, as a body.
RowFields(row) ==
  Body(row.name, row.email, row.phone, row.company, row.address_street,
       row.address_city, row.address_zip, row.geo_lat, row.geo_lng)

\* A body in the form the table keeps it: texts trimmed, the email
\* normalized, latitude and longitude as numbers.
Canonical(x) ==
  Body(Str(Trim(ToStr(x.name))), Str(NormalizeEmail(ToStr(x.email))),
       Str(Trim(ToStr(x.phone))), Str(Trim(ToStr(x.company))),
       Str(Trim(ToStr(x.address.street))), Str(Trim(ToStr(x.address.city))),
       Str(Trim(ToStr(x.address.zip))),
       RealAffinity(x.address.geo.lat), RealAffinity(x.address.geo.lng))

Paths == {validateUser[i].path : i \in 1..Len(validateUser)}

\* The fields of a body that break the rules of the validator: a text that
\* is missing or empty after trimming, an email that is no address, a
\* latitude or longitude that is no number.
FailingPaths(b) ==
  {p \in Paths :
     IF p = "email" THEN ~IsEmail(ToStr(Field(b, p)))
     ELSE IF p \in {"address.geo.lat", "address.geo.lng"} THEN ~IsFloat(ToStr(Field(b, p)))
     ELSE Trim(ToStr(Field(b, p))) = <<>>}

\* The bodies among the requests' that break a rule.
InvalidBodies == {b \in Bodies : FailingPaths(b) # {}}

\* This step is the callback of a db.run: the request answered was waiting.
Executed == resp'.req \in pending /\ pending' = pending \ {resp'.req}

\* This step is handleValidationErrors answering.
Rejected == resp'.message = "Validation failed"

EmailExists(r) == r.status = 400 /\ ~r.success /\ r.message = "Email already exists"

NotFound(r) == r.status = 404 /\ ~r.success /\ r.message = "User not found"

\* C1: in every reachable state, whatever the interleaving of the create,
\* update and delete requests in flight, no two rows of the users table
\* hold the same normalized email.
C1_EmailUnique ==
  \A i, j \in DOMAIN users :
    i # j => NormalizeEmail(ToStr(users[i].email)) # NormalizeEmail(ToStr(users[j].email))

\* Two rows are stored, a request was just refused for its email and
\* another request is still in flight.
C1_Witness ==
  /\ Cardinality(DOMAIN users) = 2
  /\ EmailExists(resp)
  /\ pending # {}

\* The request asks to create a user, or to update an existing one, with an
\* email as the client sent it that a different stored user holds.
SendsStoredEmail(r) ==
  /\ r.op \in {"create", "update"}
  /\ r.op = "update" => r.id \in DOMAIN users
  /\ \E j \in DOMAIN users : j # r.id /\ users[j].email = r.raw.email

\* The same, for the email as the chains normalize it.
SendsStoredEmailNormalized(r) ==
  /\ r.op \in {"create", "update"}
  /\ r.op = "update" => r.id \in DOMAIN users
  /\ \E j \in DOMAIN users :
       j # r.id /\ users[j].email = Str(NormalizeEmail(ToStr(r.raw.email)))

C3_InvalidRejected ==
  [][\A b \in InvalidBodies :
       /\ \A r \in pending' : r.raw # b
       /\ (resp'.req.op \in {"create", "update"} /\ resp'.req.raw = b) =>
            /\ resp'.status = 400
            /\ ~resp'.success
            /\ FailingPaths(b) \subseteq {resp'.errors[k].path : k \in 1..Len(resp'.errors)}
            /\ users' = users
            /\ seq' = seq
            /\ pending' = pending
            /\ queued' = queued]_vars

\* A request was refused with several failing fields, one of them a name
\* that is blank only after trimming, while a user is stored.
C3_Witness ==
  /\ resp.status = 400
  /\ Len(resp.errors) >= 2
  /\ resp.req.raw.name = Str(<<" ">>)
  /\ DOMAIN users # {}

\* C4 as stated: a get of a row answers 200 with the data fields the client
\* sent in the request that wrote the row, field for field.
C4_Original ==
  (resp.req.op = "get" /\ resp.req.id \in DOMAIN sent) =>
    /\ resp.status = 200
    /\ Len(resp.data) = 1
    /\ UserFields(resp.data[1]) = sent[resp.req.id]

\* C4 amended: a get of a row answers 200 with the canonical form of the
\* body of the request that wrote it (the create, until an update
\* succeeds): texts trimmed, email normalized, latitude and longitude as
\* numbers; these are the client's values when the body was sent in that
\* form.
C4_RoundTrip ==
  (resp.req.op = "get" /\ resp.req.id \in DOMAIN sent) =>
    /\ resp.status = 200
    /\ Len(resp.data) = 1
    /\ resp.data[1].id = resp.req.id
    /\ UserFields(resp.data[1]) = Canonical(sent[resp.req.id])
    /\ Canonical(sent[resp.req.id]) = sent[resp.req.id]
         => UserFields(resp.data[1]) = sent[resp.req.id]

\* A get answered for a row whose body the chains had changed.
C4_Witness ==
  /\ resp.req.op = "get"
  /\ resp.status = 200
  /\ resp.req.id \in DOMAIN sent
  /\ Canonical(sent[resp.req.id]) # sent[resp.req.id]

\* C5: the list puts a user created later before a user created earlier
\* (ids are handed out in creation order), and is empty when no user is
\* stored.
C5_NewestFirst ==
  (resp.req.op = "list" /\ resp.status = 200) =>
    /\ \A p, q \in 1..Len(resp.data) : p < q => resp.data[p].id > resp.data[q].id
    /\ Len(resp.data) = Cardinality(DOMAIN users)

C7_UpdateOfAbsent ==
  [][(Executed /\ resp'.req.op = "update" /\ resp'.req.id \notin DOMAIN users)
       => resp'.status = 404 /\ users' = users /\ seq' = seq]_vars

\* An update of an id that was never created was answered 404 while
\* another user is stored.
C7_Witness ==
  /\ resp.req.op = "update"
  /\ resp.status = 404
  /\ resp.req.id \notin deleted
  /\ DOMAIN users # {}

\* The response carries the raw detail of a failure.
RawDetail(r) == r.error \notin {"", "Something went wrong"}

\* C8: a 500 response carries the raw failure detail only when the
\* operating mode is development.
C8_DetailOnlyInDevelopment ==
  (resp.status = 500 /\ RawDetail(resp)) => mode = "development"

\* db.close() has been called.
Signalled == db # "open" \/ exited

\* C9: after the termination signal no request is accepted, so that no
\* statement is handed to a connection being closed, and the process does
\* not exit before the connection is closed.
C9_ScopedShutdown ==
  /\ Signalled => queued = 0
  /\ exited => db = "closed"

====
